---------------------------- MODULE Spec2Model ----------------------------
(***************************************************************************)
(* Recursive-Segmented-Generation: the generate / audit / approve run of   *)
(* src/rsg.ts (main, generateGlobalContext, generateProjectStructure,      *)
(* traverseStructure, processFileNode) and its pure text functions         *)
(* (parseStructureText, getBacktipsContent), and the single-shot generator *)
(* of src/unnamed/part_000.                                                *)
(*                                                                         *)
(* Text is a sequence of one-character strings, so that split, trim,       *)
(* toLowerCase, includes and endsWith are computed character by character. *)
(***************************************************************************)
EXTENDS Integers, Sequences, FiniteSets, TLC

VARIABLES
    pc,               \* position of main(): the await it is suspended at
    inflight,         \* completion requests sent and not yet answered
    globalContext,    \* rsg.ts:318 const globalContext
    structureText,    \* rsg.ts:196 const structureText
    projectStructure, \* rsg.ts:321 const projectStructure (FileSpec sequence)
    idx,              \* position of traverseStructure's for-of loop (1-based)
    fileContent,      \* rsg.ts:221 let fileContent (the candidate)
    lastPrompt,       \* the prompt of the last completion request issued
    draftResponse,    \* current FileSpec: the draft call's response
    firstAudit,       \* current FileSpec: the first audit round's response
    prevResponse,     \* current FileSpec: the response before the last one
    lastResponse,     \* current FileSpec: the last response received
    nDraft,           \* per FileSpec: draft calls issued
    nAudit,           \* per FileSpec: audit calls issued
    nWrite,           \* per FileSpec: completed writes of its file
    approvedContent,  \* per FileSpec: << >>, or <<c>> once candidate c is approved
    nCalls,           \* completion requests issued in the run
    disk,             \* path -> content of the files written by the run
    execLog,          \* child processes that ran to exit: <<index, path, code>>
    child,            \* the child process being waited for, or NoChild
    loading,          \* rsg.ts:13 let loading
    anim,             \* startLoadingAnimation: "off", "sleeping", "done"
    text,             \* parseStructureText: its argument
    parsed,           \* parseStructureText: its return value
    ppc,              \* parseStructureText: "idle", "ready", "returned"
    promptResult,     \* rsg.ts:86 what prompt("3) Enter your prompt: ") returned
    thrown,           \* the error main() rejected with: "none", "completion", "write"
    extractArg,       \* getBacktipsContent: the text it is first applied to
    extracted,        \* getBacktipsContent: its last return value
    nApplied,         \* getBacktipsContent: applications so far, each to the last result
    shotPc,           \* part_000: where its main() stands, "idle" when it is not run
    shotFiles,        \* part_000: projectData.files
    shotIdx,          \* part_000: the index of the file the for-of loop is at
    shotDisk,         \* part_000: the files on disk, path |-> content
    shotDirs,         \* part_000: the directories that exist
    shotLog,          \* part_000: requests, writes, spawns and exits, in order
    shotCalls         \* part_000: completion requests sent

vars == <<pc, inflight, globalContext, structureText, projectStructure,
          idx, fileContent, lastPrompt, draftResponse, firstAudit, prevResponse, lastResponse,
          nDraft, nAudit, nWrite, approvedContent, nCalls, disk, execLog,
          child, loading, anim, text, parsed, ppc, promptResult, thrown,
          extractArg, extracted, nApplied, shotPc, shotFiles, shotIdx,
          shotDisk, shotDirs, shotLog, shotCalls>>

runVars == <<pc, inflight, globalContext, structureText, projectStructure,
             idx, fileContent, lastPrompt, draftResponse, firstAudit, prevResponse,
             lastResponse, nDraft, nAudit, nWrite, approvedContent, nCalls,
             disk, execLog, child, loading, anim, promptResult, thrown>>

parseVars == <<text, parsed, ppc>>

extractVars == <<extractArg, extracted, nApplied>>

shotVars == <<shotPc, shotFiles, shotIdx, shotDisk, shotDirs, shotLog, shotCalls>>

-----------------------------------------------------------------------------
(* Bounds of the model *)

\* Audit rounds one FileSpec may take before only an approving response (or a
\* failure) is drawn: the code's loop has no cap.
MaxRounds == 3

\* Longest text handed to parseStructureText in SpecParse.
MaxLen == 5

\* Longest text handed to getBacktipsContent in SpecExtract: an opening fence,
\* a line feed and a closing fence take seven characters.
MaxExtractLen == 8

\* How often getBacktipsContent is applied to its own result in SpecExtract.
MaxApply == 2

\* Longest files array of a response in SpecShot.
MaxShotFiles == 2

-----------------------------------------------------------------------------
(* Characters and strings *)

NL == "\n"
\* the backtick character (one character of a text, written out as a word)
BT == "backtick"
EmptyStr == << >>

WhiteSpace == {" ", "\t", "\n", "\r"}

UpperCase == <<"A","B","C","D","E","F","G","H","I","J","K","L","M",
               "N","O","P","Q","R","S","T","U","V","W","X","Y","Z">>
LowerCase == <<"a","b","c","d","e","f","g","h","i","j","k","l","m",
               "n","o","p","q","r","s","t","u","v","w","x","y","z">>

\* String.prototype.toLowerCase, on one character
LowerChar(c) ==
    IF \E i \in 1..Len(UpperCase) : UpperCase[i] = c
    THEN LowerCase[CHOOSE i \in 1..Len(UpperCase) : UpperCase[i] = c]
    ELSE c

\* String.prototype.toLowerCase
toLowerCase(s) == [i \in 1..Len(s) |-> LowerChar(s[i])]

\* s has sub at position i (1-based)
MatchAt(s, sub, i) ==
    /\ i >= 1
    /\ i + Len(sub) - 1 <= Len(s)
    /\ \A k \in 1..Len(sub) : s[i + k - 1] = sub[k]

\* String.prototype.includes
includes(s, sub) == \E i \in 1..(Len(s) + 1) : MatchAt(s, sub, i)

\* String.prototype.endsWith
endsWith(s, suffix) == MatchAt(s, suffix, Len(s) - Len(suffix) + 1)

\* String.prototype.trim
RECURSIVE TrimStart(_)
TrimStart(s) ==
    IF s # EmptyStr /\ Head(s) \in WhiteSpace THEN TrimStart(Tail(s)) ELSE s

RECURSIVE TrimEnd(_)
TrimEnd(s) ==
    IF s # EmptyStr /\ s[Len(s)] \in WhiteSpace
    THEN TrimEnd(SubSeq(s, 1, Len(s) - 1))
    ELSE s

trim(s) == TrimEnd(TrimStart(s))

\* String.prototype.split with a one-character separator: "" splits to [""]
RECURSIVE split(_, _)
split(s, sep) ==
    IF \E i \in 1..Len(s) : s[i] = sep
    THEN LET i == CHOOSE j \in 1..Len(s) :
                     /\ s[j] = sep
                     /\ \A k \in 1..(j - 1) : s[k] # sep
         IN  <<SubSeq(s, 1, i - 1)>> \o split(SubSeq(s, i + 1, Len(s)), sep)
    ELSE <<s>>

\* Array.prototype.join with a one-character separator
RECURSIVE join(_, _)
join(parts, sep) ==
    IF parts = << >> THEN EmptyStr
    ELSE IF Len(parts) = 1 THEN parts[1]
    ELSE parts[1] \o <<sep>> \o join(Tail(parts), sep)

-----------------------------------------------------------------------------
(* parseStructureText, rsg.ts:154-171 *)

\* rsg.ts:157 the lines kept by .filter((line) => line.trim() !== "")
RECURSIVE NonBlank(_)
NonBlank(lines) ==
    IF lines = << >> THEN << >>
    ELSE IF trim(Head(lines)) # EmptyStr
         THEN <<Head(lines)>> \o NonBlank(Tail(lines))
         ELSE NonBlank(Tail(lines))

\* rsg.ts:164 the description of a line split into parts; a variant that keeps
\* only the segment after the first colon
DescriptionSecondPartOnly(parts) == trim(parts[2])

\* rsg.ts:163-164 parts.shift(), then parts.join(":").trim()
Description(parts) == trim(join(Tail(parts), ":"))

\* rsg.ts:161-168 the entries one line contributes (none or one); first a
\* variant without the check of line 165
ParseLineUnchecked(line) ==
    LET parts == split(line, ":")
    IN  IF Len(parts) >= 2
        THEN << [filename |-> trim(Head(parts)), description |-> Description(parts)] >>
        ELSE << >>

ParseLine(line) ==
    LET parts == split(line, ":")
    IN  IF Len(parts) >= 2
        THEN LET filename == trim(Head(parts))
                 description == Description(parts)
             IN  IF filename # EmptyStr /\ description # EmptyStr
                 THEN << [filename |-> filename, description |-> description] >>
                 ELSE << >>
        ELSE << >>

\* rsg.ts:159-169 the for-of loop pushing to files; first a variant that
\* keeps one entry per filename, the first
RECURSIVE ParseLinesKeyed(_)
ParseLinesKeyed(lines) ==
    IF lines = << >> THEN << >>
    ELSE LET before == ParseLinesKeyed(SubSeq(lines, 1, Len(lines) - 1))
             entry == ParseLine(lines[Len(lines)])
         IN  IF /\ entry # << >>
                /\ \E k \in 1..Len(before) : before[k].filename = entry[1].filename
             THEN before
             ELSE before \o entry

RECURSIVE ParseLines(_)
ParseLines(lines) ==
    IF lines = << >> THEN << >>
    ELSE ParseLine(Head(lines)) \o ParseLines(Tail(lines))

parseStructureText(t) == ParseLines(NonBlank(split(t, NL)))

-----------------------------------------------------------------------------
(* getBacktipsContent, rsg.ts:92-95 *)

Fence == <<BT, BT, BT>>

\* exec's null: a match array is never empty
NoMatch == << >>

\* /^/ under the m flag: the start of the text or just after a line terminator
LineStart(s, i) == i = 1 \/ (i >= 2 /\ i <= Len(s) + 1 /\ s[i - 1] \in {"\n", "\r"})

\* An opening fence at i and a closing fence at j that /```.*?^```/ms accepts
FenceMatch(s, i, j) ==
    /\ MatchAt(s, Fence, i)
    /\ j >= i + 3
    /\ LineStart(s, j)
    /\ MatchAt(s, Fence, j)

\* RegExp.prototype.exec of /```.*?^```/gms from lastIndex 0: the array of the
\* leftmost match with the nearest closing fence, or NoMatch (null).  The pattern has no
\* capturing group, so the array holds the whole match alone (index 0 of the
\* code is index 1 here).
backtipsContentRegexExec(s) ==
    IF \E i, j \in 1..Len(s) : FenceMatch(s, i, j)
    THEN LET i == CHOOSE a \in 1..Len(s) :
                     /\ \E j \in 1..Len(s) : FenceMatch(s, a, j)
                     /\ \A b \in 1..(a - 1) : ~ \E j \in 1..Len(s) : FenceMatch(s, b, j)
             j == CHOOSE c \in 1..Len(s) :
                     /\ FenceMatch(s, i, c)
                     /\ \A d \in 1..(c - 1) : ~ FenceMatch(s, i, d)
         IN  << SubSeq(s, i, j + 2) >>
    ELSE NoMatch

\* A variant of getBacktipsContent for the pattern /```(.*?)```/s: the text
\* between the first fence and the next one, wherever they stand
getBacktipsContentAnywhere(content) ==
    IF \E i, j \in 1..Len(content) :
          MatchAt(content, Fence, i) /\ j >= i + 3 /\ MatchAt(content, Fence, j)
    THEN LET i == CHOOSE a \in 1..Len(content) :
                     /\ MatchAt(content, Fence, a)
                     /\ \A b \in 1..(a - 1) : ~ MatchAt(content, Fence, b)
             j == CHOOSE c \in (i + 3)..Len(content) :
                     /\ MatchAt(content, Fence, c)
                     /\ \A e \in (i + 3)..(c - 1) : ~ MatchAt(content, Fence, e)
             body == SubSeq(content, i + 3, j - 1)
         IN  IF body # EmptyStr THEN body ELSE content
    ELSE content

\* rsg.ts:94 exec(content)?.[1] || content: element [1] of the code is element
\* 2 here; a missing element is undefined and an empty string is falsy.
getBacktipsContent(content) ==
    LET m == backtipsContentRegexExec(content)
    IN  IF m # NoMatch /\ Len(m) >= 2 /\ m[2] # EmptyStr THEN m[2] ELSE content

-----------------------------------------------------------------------------
(* Paths and the file system *)

SEP == "/"
Dot == <<".">>
DotDot == <<".", ".">>

\* rsg.ts:80 projectDir = join(basePath, projectName): an absolute path, as its
\* segments (a one-letter base directory and a one-letter project name)
projectDir == << <<"w">>, <<"p">> >>

\* The directories that exist when main() starts (rsg.ts:69, rsg.ts:81
\* ensureDirectoryExists); main() and what it calls create no other.
Dirs == { << >>, << <<"w">> >>, projectDir }

\* std/path normalizeString over the segments of an absolute path: empty and
\* "." segments are dropped, ".." drops the segment before it (none at the root)
RECURSIVE NormalizeFrom(_, _)
NormalizeFrom(acc, segs) ==
    IF segs = << >> THEN acc
    ELSE LET seg == Head(segs)
         IN  IF seg = EmptyStr \/ seg = Dot THEN NormalizeFrom(acc, Tail(segs))
             ELSE IF seg = DotDot
                  THEN NormalizeFrom(IF acc = << >> THEN acc
                                     ELSE SubSeq(acc, 1, Len(acc) - 1), Tail(segs))
                  ELSE NormalizeFrom(Append(acc, seg), Tail(segs))

\* std/path join(dir, name), dir absolute and normalised: the segments of the
\* result, and whether it keeps a trailing separator
pathJoin(dir, name) ==
    [ segs     |-> NormalizeFrom(dir, split(name, SEP)),
      trailing |-> name # EmptyStr /\ name[Len(name)] = SEP ]

\* rsg.ts:126-132
resolveFilePath(filename) ==
    [ filePath |-> pathJoin(projectDir, filename), workDir |-> projectDir ]

GlobalContextFile ==
    pathJoin(projectDir, <<"g","l","o","b","a","l","_","c","o","n","t","e","x","t",
                           ".","t","x","t">>)
ProjectStructureFile ==
    pathJoin(projectDir, <<"p","r","o","j","e","c","t","_","s","t","r","u","c","t",
                           "u","r","e",".","t","x","t">>)

\* Deno.writeTextFile(path, ...) resolves: the path names no directory and its
\* parent directory exists (it creates the file, never a directory)
WriteSucceeds(path) ==
    /\ ~ path.trailing
    /\ path.segs # << >>
    /\ path.segs \notin Dirs
    /\ SubSeq(path.segs, 1, Len(path.segs) - 1) \in Dirs

\* The file system after Deno.writeTextFile(path, content) resolved; a variant
\* that leaves an existing file as it is
WrittenKeepExisting(fs, path, content) ==
    [ q \in (DOMAIN fs) \cup {path.segs} |->
        IF q \in DOMAIN fs THEN fs[q] ELSE content ]

Written(fs, path, content) ==
    [ q \in (DOMAIN fs) \cup {path.segs} |->
        IF q = path.segs THEN content ELSE fs[q] ]

NoFiles == [ q \in {} |-> EmptyStr ]

-----------------------------------------------------------------------------
(* The texts the model draws from *)

\* The text a user types at the prompt of rsg.ts:86
UserPrompt == <<"u">>

\* null, as prompt() returns it: no text, and no character sequence
JsNull == <<"null value">>

\* String(value) for null or a string
String(value) == IF value = JsNull THEN <<"n","u","l","l">> ELSE value

\* rsg.ts:86 const userPrompt = String(prompt("3) Enter your prompt: "))
userPrompt == String(promptResult)

BaseSuffix == <<"s">>

\* rsg.ts:245 the literal "approved"
Approved == <<"a","p","p","r","o","v","e","d">>
DotPy == <<".","p","y">>
DotJs == <<".","j","s">>

\* Completions of the context prompt
GlobalContexts == { <<"g">>, <<"h">> }

\* Completions of the structure prompt
ListingTexts ==
    { EmptyStr,                                                \* no FileSpec
      <<"o","k",NL,":","x">>,                                  \* no line accepted
      <<"a",":","f",NL,"a",":","s">>,                          \* a filename twice
      <<"m",".","p","y",":","e",NL,"u",".","j","s",":","h">>,  \* two scripts
      <<"n","o","t","e",NL,"t",":","k">>,                      \* a dropped line
      <<"d","/","f",":","x">>,                                 \* a subdirectory
      <<".",".","/","e",":","x">> }                            \* a parent segment

\* Completions of a draft prompt
DraftTexts ==
    { <<"c">>,
      <<BT,BT,BT,NL,"c","1",NL,BT,BT,BT>>,
      Approved }

\* Completions of an audit prompt
AuditTexts ==
    { Approved,
      <<"A","P","P","R","O","V","E","D">>,
      <<"N","o","t"," ","A","p","p","r","o","v","e","d",".",NL,"z">>,
      <<"a","p","p","r","o","v","e">>,
      <<"r">>,
      <<BT,BT,BT,NL,"r","2",NL,BT,BT,BT>> }

\* The template of a prompt and the texts interpolated into it, in order
Prompt(kind, parts) == [ kind |-> kind, parts |-> parts ]

NoPrompt == Prompt("none", << >>)

NoChild == [ index |-> 0, cmd |-> "none", path |-> << >> ]

ZeroSeq(n) == [ i \in 1..n |-> 0 ]
NoneSeq(n) == [ i \in 1..n |-> << >> ]

-----------------------------------------------------------------------------
(* The run of main(), rsg.ts:295-340.  One action per stretch of code between
   two awaits: a completion request is sent in the action that reaches
   callGPT4's fetch, and answered in the action that resumes after it. *)

histVars == <<draftResponse, firstAudit, prevResponse, lastResponse>>
fileVars == <<nAudit, nWrite, approvedContent>>
earlyVars == <<globalContext, structureText, projectStructure>>

InitRun ==
    /\ pc = "start"
    /\ inflight = 0
    /\ globalContext = EmptyStr
    /\ structureText = EmptyStr
    /\ projectStructure = << >>
    /\ idx = 0
    /\ fileContent = EmptyStr
    /\ lastPrompt = NoPrompt
    /\ draftResponse = EmptyStr
    /\ firstAudit = EmptyStr
    /\ prevResponse = EmptyStr
    /\ lastResponse = EmptyStr
    /\ nDraft = << >>
    /\ nAudit = << >>
    /\ nWrite = << >>
    /\ approvedContent = << >>
    /\ nCalls = 0
    /\ disk = NoFiles
    /\ execLog = << >>
    /\ child = NoChild
    /\ loading = FALSE
    /\ anim = "off"
    /\ thrown = "none"

IdleParse ==
    /\ text = EmptyStr
    /\ parsed = << >>
    /\ ppc = "idle"

IdleExtract ==
    /\ extractArg = EmptyStr
    /\ extracted = EmptyStr
    /\ nApplied = 0

\* rsg.ts:86 the values prompt() can return: null (empty input where prompt
\* gives null for it, or a stdin that is no terminal), the empty string
\* (empty input where prompt gives "" for it), or the text typed
PromptResults == { JsNull, EmptyStr, UserPrompt }

IdleShot ==
    /\ shotPc = "idle"
    /\ shotFiles = << >>
    /\ shotIdx = 0
    /\ shotDisk = NoFiles
    /\ shotDirs = {}
    /\ shotLog = << >>
    /\ shotCalls = 0

Init ==
    /\ InitRun
    /\ promptResult \in PromptResults
    /\ IdleParse
    /\ IdleExtract
    /\ IdleShot

\* rsg.ts:245 auditResponse.toLowerCase().includes("approved"), and variants:
\* one compares the response itself with "approved", one does not lower-case
\* it, one also leaves the loop from the second round on
isApprovalExact(auditResponse) == auditResponse = Approved

isApprovalCaseSensitive(auditResponse) == includes(auditResponse, Approved)

isApprovalCapped(auditResponse) ==
    includes(toLowerCase(auditResponse), Approved) \/ nAudit[idx] >= 2

isApproval(auditResponse) == includes(toLowerCase(auditResponse), Approved)

\* rsg.ts:255 the content handed to Deno.writeTextFile; a variant that writes
\* the approving response
finalContentResponse(candidate, auditResponse) == auditResponse

finalContent(candidate, auditResponse) == candidate

\* rsg.ts:259 the file is run as a script; first a variant for ".py" alone
isScriptPyOnly(filename) == endsWith(filename, DotPy)

isScript(filename) == endsWith(filename, DotPy) \/ endsWith(filename, DotJs)

\* rsg.ts:262-264 the interpreter
interpreter(filename) == IF endsWith(filename, DotPy) THEN "python" ELSE "deno"

\* rsg.ts:212-221 the draft prompt of a FileSpec
filePrompt(fileNode, context) ==
    Prompt("draft", <<context, fileNode.description, fileNode.filename>>)

\* rsg.ts:226-243 the audit prompt of a FileSpec
auditPrompt(fileNode, content) ==
    Prompt("audit", <<content, fileNode.description>>)

\* rsg.ts:287-289 and 337-338: traverseStructure reaches entry k of files.  It
\* either starts processFileNode on it (up to the draft request, rsg.ts:221)
\* or, past the last entry, returns to main, which stops the animation and
\* awaits it.  nd is nDraft so far, ld the value of loading so far.  First a
\* variant that ends the run when there is no entry at all.
ContinueEmptyIsError(files, k, nd, ld) ==
    /\ idx' = k
    /\ IF k <= Len(files)
       THEN /\ pc' = "draft_wait"
            /\ lastPrompt' = filePrompt(files[k], globalContext)
            /\ inflight' = inflight + 1
            /\ nCalls' = nCalls + 1
            /\ nDraft' = [nd EXCEPT ![k] = @ + 1]
            /\ loading' = ld
       ELSE /\ pc' = IF files = << >> THEN "failed" ELSE "anim_wait"
            /\ lastPrompt' = lastPrompt
            /\ inflight' = inflight
            /\ nCalls' = nCalls
            /\ nDraft' = nd
            /\ loading' = FALSE
    /\ fileContent' = EmptyStr
    /\ draftResponse' = EmptyStr
    /\ firstAudit' = EmptyStr
    /\ prevResponse' = EmptyStr
    /\ lastResponse' = EmptyStr

Continue(files, k, nd, ld) ==
    /\ idx' = k
    /\ IF k <= Len(files)
       THEN /\ pc' = "draft_wait"
            /\ lastPrompt' = filePrompt(files[k], globalContext)
            /\ inflight' = inflight + 1
            /\ nCalls' = nCalls + 1
            /\ nDraft' = [nd EXCEPT ![k] = @ + 1]
            /\ loading' = ld
       ELSE /\ pc' = "anim_wait"
            /\ lastPrompt' = lastPrompt
            /\ inflight' = inflight
            /\ nCalls' = nCalls
            /\ nDraft' = nd
            /\ loading' = FALSE
    /\ fileContent' = EmptyStr
    /\ draftResponse' = EmptyStr
    /\ firstAudit' = EmptyStr
    /\ prevResponse' = EmptyStr
    /\ lastResponse' = EmptyStr

\* rsg.ts:86-90, 345, 295-318, 141-142: the module's check of userPrompt,
\* which ends the process with Deno.exit(1), then main() with the same check
\* and on to the context request
MainStart ==
    /\ pc = "start"
    /\ IF userPrompt = EmptyStr
       THEN /\ pc' = "exited"
            /\ UNCHANGED <<lastPrompt, inflight, nCalls>>
       ELSE /\ pc' = "ctx_wait"
            /\ lastPrompt' = Prompt("context", <<userPrompt, BaseSuffix>>)
            /\ inflight' = inflight + 1
            /\ nCalls' = nCalls + 1
    /\ UNCHANGED <<earlyVars, idx, fileContent, histVars, nDraft, fileVars,
                   disk, execLog, child, loading, anim,
                   parseVars, extractVars, shotVars, promptResult, thrown>>

\* rsg.ts:142-146: the context arrives and its file is being written
CtxRespond(r) ==
    /\ pc = "ctx_wait"
    /\ pc' = "ctx_write"
    /\ inflight' = inflight - 1
    /\ globalContext' = r
    /\ UNCHANGED <<structureText, projectStructure, idx, fileContent,
                   lastPrompt, histVars, nDraft, fileVars, nCalls, disk,
                   execLog, child, loading, anim,
                   parseVars, extractVars, shotVars, promptResult, thrown>>

\* rsg.ts:143-147, 321, 181-196: global_context.txt is written and the
\* structure request is sent; first a variant that never writes the file
CtxWrittenNotPersisted ==
    /\ pc = "ctx_write"
    /\ pc' = "struct_wait"
    /\ lastPrompt' = Prompt("structure", <<globalContext, userPrompt, BaseSuffix>>)
    /\ inflight' = inflight + 1
    /\ nCalls' = nCalls + 1
    /\ UNCHANGED <<earlyVars, idx, fileContent, histVars, nDraft, fileVars,
                   disk, execLog, child, loading, anim,
                   parseVars, extractVars, shotVars, promptResult, thrown>>

CtxWritten ==
    /\ pc = "ctx_write"
    /\ pc' = "struct_wait"
    /\ disk' = Written(disk, GlobalContextFile, globalContext)
    /\ lastPrompt' = Prompt("structure", <<globalContext, userPrompt, BaseSuffix>>)
    /\ inflight' = inflight + 1
    /\ nCalls' = nCalls + 1
    /\ UNCHANGED <<earlyVars, idx, fileContent, histVars, nDraft, fileVars,
                   execLog, child, loading, anim,
                   parseVars, extractVars, shotVars, promptResult, thrown>>

\* rsg.ts:196-200: the listing arrives and its file is being written
StructRespond(r) ==
    /\ pc = "struct_wait"
    /\ pc' = "struct_write"
    /\ inflight' = inflight - 1
    /\ structureText' = r
    /\ UNCHANGED <<globalContext, projectStructure, idx, fileContent,
                   lastPrompt, histVars, nDraft, fileVars, nCalls, disk,
                   execLog, child, loading, anim,
                   parseVars, extractVars, shotVars, promptResult, thrown>>

\* rsg.ts:197-201, 329, 16-24, 333: project_structure.txt is written, the
\* listing is parsed, the animation starts (it sets loading and sleeps), and
\* traverseStructure begins
StructWritten ==
    /\ pc = "struct_write"
    /\ disk' = Written(disk, ProjectStructureFile, structureText)
    /\ projectStructure' = parseStructureText(structureText)
    /\ anim' = "sleeping"
    /\ nAudit' = ZeroSeq(Len(projectStructure'))
    /\ nWrite' = ZeroSeq(Len(projectStructure'))
    /\ approvedContent' = NoneSeq(Len(projectStructure'))
    /\ Continue(projectStructure', 1, ZeroSeq(Len(projectStructure')), TRUE)
    /\ UNCHANGED <<globalContext, structureText, execLog, child,
                   parseVars, extractVars, shotVars, promptResult, thrown>>

\* rsg.ts:221-244: the draft arrives, becomes the candidate, and the first
\* audit request is sent
DraftRespond(r) ==
    /\ pc = "draft_wait"
    /\ pc' = "audit_wait"
    /\ fileContent' = getBacktipsContent(r)
    /\ draftResponse' = r
    /\ lastResponse' = r
    /\ prevResponse' = lastResponse
    /\ lastPrompt' = auditPrompt(projectStructure[idx], fileContent')
    /\ inflight' = inflight - 1 + 1
    /\ nCalls' = nCalls + 1
    /\ nAudit' = [nAudit EXCEPT ![idx] = @ + 1]
    /\ UNCHANGED <<earlyVars, idx, firstAudit, nDraft, nWrite,
                   approvedContent, disk, execLog, child, loading, anim,
                   parseVars, extractVars, shotVars, promptResult, thrown>>

\* rsg.ts:244-255: an audit response arrives.  An approving one ends the loop
\* and the write of the file is started; any other becomes the candidate and
\* the next audit request is sent.  First a variant in which a revision is
\* also appended to the global context.
AuditRespondRevisesContext(r) ==
    /\ pc = "audit_wait"
    /\ isApproval(r) \/ nAudit[idx] < MaxRounds
    /\ lastResponse' = r
    /\ prevResponse' = lastResponse
    /\ firstAudit' = IF nAudit[idx] = 1 THEN r ELSE firstAudit
    /\ IF isApproval(r)
       THEN /\ pc' = "file_write"
            /\ fileContent' = finalContent(fileContent, r)
            /\ approvedContent' = [approvedContent EXCEPT ![idx] = <<fileContent'>>]
            /\ inflight' = inflight - 1
            /\ UNCHANGED <<lastPrompt, nCalls, nAudit, globalContext>>
       ELSE /\ pc' = "audit_wait"
            /\ fileContent' = getBacktipsContent(r)
            /\ lastPrompt' = auditPrompt(projectStructure[idx], fileContent')
            /\ inflight' = inflight - 1 + 1
            /\ nCalls' = nCalls + 1
            /\ nAudit' = [nAudit EXCEPT ![idx] = @ + 1]
            /\ globalContext' = globalContext \o fileContent'
            /\ UNCHANGED approvedContent
    /\ UNCHANGED <<structureText, projectStructure, idx, draftResponse, nDraft, nWrite, disk,
                   execLog, child, loading, anim,
                   parseVars, extractVars, shotVars, promptResult, thrown>>

AuditRespond(r) ==
    /\ pc = "audit_wait"
    /\ isApproval(r) \/ nAudit[idx] < MaxRounds
    /\ lastResponse' = r
    /\ prevResponse' = lastResponse
    /\ firstAudit' = IF nAudit[idx] = 1 THEN r ELSE firstAudit
    /\ IF isApproval(r)
       THEN /\ pc' = "file_write"
            /\ fileContent' = finalContent(fileContent, r)
            /\ approvedContent' = [approvedContent EXCEPT ![idx] = <<fileContent'>>]
            /\ inflight' = inflight - 1
            /\ UNCHANGED <<lastPrompt, nCalls, nAudit>>
       ELSE /\ pc' = "audit_wait"
            /\ fileContent' = getBacktipsContent(r)
            /\ lastPrompt' = auditPrompt(projectStructure[idx], fileContent')
            /\ inflight' = inflight - 1 + 1
            /\ nCalls' = nCalls + 1
            /\ nAudit' = [nAudit EXCEPT ![idx] = @ + 1]
            /\ UNCHANGED approvedContent
    /\ UNCHANGED <<earlyVars, idx, draftResponse, nDraft, nWrite, disk,
                   execLog, child, loading, anim,
                   parseVars, extractVars, shotVars, promptResult, thrown>>

\* rsg.ts:100-116: fetch rejects or the status is not ok; callGPT4 throws,
\* nothing catches it and main() rejects.  First a variant that sends the
\* request again.
CallFailsRetried ==
    /\ pc \in {"ctx_wait", "struct_wait", "draft_wait", "audit_wait"}
    /\ thrown' = "completion"
    /\ inflight' = inflight - 1 + 1
    /\ nCalls' = nCalls + 1
    /\ UNCHANGED <<pc, earlyVars, idx, fileContent, lastPrompt, histVars,
                   nDraft, fileVars, disk, execLog, child, loading, anim,
                   parseVars, extractVars, shotVars, promptResult>>

CallFails ==
    /\ pc \in {"ctx_wait", "struct_wait", "draft_wait", "audit_wait"}
    /\ pc' = "failed"
    /\ thrown' = "completion"
    /\ inflight' = inflight - 1
    /\ UNCHANGED <<earlyVars, idx, fileContent, lastPrompt, histVars, nDraft,
                   fileVars, nCalls, disk, execLog, child, loading, anim,
                   parseVars, extractVars, shotVars, promptResult>>

\* rsg.ts:254-267, 287-289: the file is written; a script is spawned and
\* awaited, otherwise traverseStructure goes on.  First a variant that does
\* not await the child's exit.
FileWrittenChildNotAwaited ==
    /\ pc = "file_write"
    /\ LET fileNode == projectStructure[idx]
           filePath == resolveFilePath(fileNode.filename).filePath
       IN  /\ WriteSucceeds(filePath)
           /\ disk' = Written(disk, filePath, fileContent)
           /\ nWrite' = [nWrite EXCEPT ![idx] = @ + 1]
           /\ child' = IF isScript(fileNode.filename)
                       THEN [ index |-> idx,
                              cmd |-> interpreter(fileNode.filename),
                              path |-> filePath.segs ]
                       ELSE child
           /\ Continue(projectStructure, idx + 1, nDraft, loading)
    /\ UNCHANGED <<earlyVars, nAudit, approvedContent, execLog, anim,
                   parseVars, extractVars, shotVars, promptResult, thrown>>

FileWritten ==
    /\ pc = "file_write"
    /\ LET fileNode == projectStructure[idx]
           filePath == resolveFilePath(fileNode.filename).filePath
       IN  /\ WriteSucceeds(filePath)
           /\ disk' = Written(disk, filePath, fileContent)
           /\ nWrite' = [nWrite EXCEPT ![idx] = @ + 1]
           /\ IF isScript(fileNode.filename)
              THEN /\ pc' = "exec_wait"
                   /\ child' = [ index |-> idx,
                                 cmd |-> interpreter(fileNode.filename),
                                 path |-> filePath.segs ]
                   /\ UNCHANGED <<idx, fileContent, lastPrompt, inflight,
                                  nCalls, nDraft, loading, histVars>>
              ELSE /\ Continue(projectStructure, idx + 1, nDraft, loading)
                   /\ UNCHANGED child
    /\ UNCHANGED <<earlyVars, nAudit, approvedContent, execLog, anim,
                   parseVars, extractVars, shotVars, promptResult, thrown>>

\* rsg.ts:255: Deno.writeTextFile rejects; nothing catches it and main()
\* rejects
WriteFails ==
    /\ pc = "file_write"
    /\ ~ WriteSucceeds(resolveFilePath(projectStructure[idx].filename).filePath)
    /\ pc' = "failed"
    /\ thrown' = "write"
    /\ UNCHANGED <<inflight, earlyVars, idx, fileContent, lastPrompt, histVars,
                   nDraft, fileVars, nCalls, disk, execLog, child, loading,
                   anim, parseVars, extractVars, shotVars, promptResult>>

\* rsg.ts:268-277, 287-289: the child exits, the outcome is logged, and
\* traverseStructure goes on.  First a variant that throws on a nonzero code.
ExecExitThrows(code) ==
    /\ pc = "exec_wait"
    /\ execLog' = Append(execLog, <<child.index, child.path, code>>)
    /\ child' = NoChild
    /\ IF code = 0
       THEN /\ Continue(projectStructure, idx + 1, nDraft, loading)
            /\ UNCHANGED thrown
       ELSE /\ pc' = "failed"
            /\ thrown' = "script"
            /\ UNCHANGED <<idx, fileContent, lastPrompt, inflight, nCalls,
                           nDraft, loading, histVars>>
    /\ UNCHANGED <<earlyVars, fileVars, disk, anim,
                   parseVars, extractVars, shotVars, promptResult>>

ExecExit(code) ==
    /\ pc = "exec_wait"
    /\ execLog' = Append(execLog, <<child.index, child.path, code>>)
    /\ child' = NoChild
    /\ Continue(projectStructure, idx + 1, nDraft, loading)
    /\ UNCHANGED <<earlyVars, fileVars, disk, anim,
                   parseVars, extractVars, shotVars, promptResult, thrown>>

\* rsg.ts:19-26: the animation wakes from its 100 ms sleep; it sleeps again
\* while loading is set, and returns once it is cleared
AnimTick ==
    /\ anim = "sleeping"
    /\ pc # "failed"
    /\ anim' = IF loading THEN "sleeping" ELSE "done"
    /\ UNCHANGED <<pc, inflight, earlyVars, idx, fileContent, lastPrompt,
                   histVars, nDraft, fileVars, nCalls, disk, execLog, child,
                   loading,
                   parseVars, extractVars, shotVars, promptResult, thrown>>

\* rsg.ts:338-340: await loadingAnimation resolves and main() returns
MainReturn ==
    /\ pc = "anim_wait"
    /\ anim = "done"
    /\ pc' = "done"
    /\ UNCHANGED <<inflight, earlyVars, idx, fileContent, lastPrompt, histVars,
                   nDraft, fileVars, nCalls, disk, execLog, child, loading,
                   anim,
                   parseVars, extractVars, shotVars, promptResult, thrown>>

Next ==
    \/ MainStart
    \/ \E r \in GlobalContexts : CtxRespond(r)
    \/ CtxWritten
    \/ \E r \in ListingTexts : StructRespond(r)
    \/ StructWritten
    \/ \E r \in DraftTexts : DraftRespond(r)
    \/ \E r \in AuditTexts : AuditRespond(r)
    \/ CallFails
    \/ FileWritten
    \/ WriteFails
    \/ \E code \in {0, 1} : ExecExit(code)
    \/ AnimTick
    \/ MainReturn

Spec == Init /\ [][Next]_vars

\* The steps of main() and of the calls it awaits, the failure of a request
\* left out.  main() is one chain of awaits: at most one of its continuations
\* is ready at a time.
MainProgress ==
    \/ MainStart
    \/ \E r \in GlobalContexts : CtxRespond(r)
    \/ CtxWritten
    \/ \E r \in ListingTexts : StructRespond(r)
    \/ StructWritten
    \/ \E r \in DraftTexts : DraftRespond(r)
    \/ \E r \in AuditTexts : AuditRespond(r)
    \/ FileWritten
    \/ WriteFails
    \/ \E code \in {0, 1} : ExecExit(code)
    \/ MainReturn

\* What the runtime and the environment of a run provide: the continuation of
\* main() that is ready is run (a request is answered unless it fails, a write
\* ends, a spawned child exits), and the 100 ms timer of rsg.ts:24 fires.
\* Whether a request fails is left open: CallFails has no fairness.
Fairness ==
    /\ WF_vars(MainProgress)
    /\ WF_vars(AnimTick)

SpecFair == Spec /\ Fairness

-----------------------------------------------------------------------------
(* parseStructureText applied to every text of at most MaxLen characters, and
   to every text of two lines out of a few longer ones *)

ParseAlphabet == {"a", "b", "c", ":", " ", NL}

SampleLines ==
    { <<"a", ":", "b">>,
      <<"a", ":", "c">>,
      <<" ", "b", " ", ":", " ", "a", ":", ":", "c", " ">>,
      <<"a", ":", " ">>,
      <<":", "b">>,
      <<"a", "b">>,
      <<" ">> }

TwoLineTexts == { l1 \o <<NL>> \o l2 : l1, l2 \in SampleLines }

RECURSIVE TextsUpTo(_)
TextsUpTo(n) ==
    IF n = 0 THEN { EmptyStr }
    ELSE LET shorter == TextsUpTo(n - 1)
         IN  shorter \cup { Append(t, c) : t \in shorter, c \in ParseAlphabet }

InitParse ==
    /\ InitRun
    /\ promptResult = UserPrompt
    /\ IdleExtract
    /\ IdleShot
    /\ text \in TextsUpTo(MaxLen) \cup TwoLineTexts
    /\ parsed = << >>
    /\ ppc = "ready"

\* rsg.ts:154-171 one call of parseStructureText
ParseCall ==
    /\ ppc = "ready"
    /\ parsed' = parseStructureText(text)
    /\ ppc' = "returned"
    /\ UNCHANGED <<text, runVars, extractVars, shotVars>>

NextParse == ParseCall

SpecParse == InitParse /\ [][NextParse]_vars

-----------------------------------------------------------------------------
(* getBacktipsContent applied, MaxApply times over, to every text of at most
   MaxExtractLen characters over a backtick, a line feed and a letter *)

ExtractAlphabet == {BT, NL, "c"}

RECURSIVE ExtractTextsUpTo(_)
ExtractTextsUpTo(n) ==
    IF n = 0 THEN { EmptyStr }
    ELSE LET shorter == ExtractTextsUpTo(n - 1)
         IN  shorter \cup { Append(t, c) : t \in shorter, c \in ExtractAlphabet }

InitExtract ==
    /\ InitRun
    /\ promptResult = UserPrompt
    /\ IdleParse
    /\ IdleShot
    /\ extractArg \in ExtractTextsUpTo(MaxExtractLen)
    /\ extracted = extractArg
    /\ nApplied = 0

\* rsg.ts:92-95 one call of getBacktipsContent, on the text at first and on
\* its own result from then on
ExtractCall ==
    /\ nApplied < MaxApply
    /\ extracted' = getBacktipsContent(extracted)
    /\ nApplied' = nApplied + 1
    /\ UNCHANGED <<extractArg, runVars, parseVars, shotVars>>

NextExtract == ExtractCall

SpecExtract == InitExtract /\ [][NextExtract]_vars

-----------------------------------------------------------------------------
(* The single-shot generator, src/unnamed/part_000: one completion request for
   the whole project, then per file mkdir, write, run and wait, then one audit
   request.  One action per stretch of code between two awaits. *)

\* part_000:15 basePath, and part_000:40 projectDir = join(basePath, "project")
shotBasePath == << <<"w">> >>
shotProjectDir == Append(shotBasePath, <<"p","r","o","j","e","c","t">>)

ProjectPrefix == <<"p","r","o","j","e","c","t","/">>

\* String.prototype.startsWith
startsWith(s, prefix) == MatchAt(s, prefix, 1)

\* part_000:87-96
shotResolveFilePath(filename) ==
    IF startsWith(filename, ProjectPrefix)
    THEN [ filePath |-> pathJoin(shotProjectDir,
                                 SubSeq(filename, Len(ProjectPrefix) + 1, Len(filename))),
           workDir  |-> shotProjectDir ]
    ELSE [ filePath |-> pathJoin(shotBasePath, filename), workDir |-> shotBasePath ]

\* std/path dirname of a joined path, as segments
dirname(path) ==
    IF path.segs = << >> THEN << >> ELSE SubSeq(path.segs, 1, Len(path.segs) - 1)

\* Deno.mkdir(dir, {recursive: true}) resolves unless dir or one of its
\* parents is a file; it creates dir and the parents that are missing
MkdirSucceeds(fs, dir) == \A n \in 0..Len(dir) : SubSeq(dir, 1, n) \notin DOMAIN fs

MkdirRecursive(dirs, dir) == dirs \cup { SubSeq(dir, 1, n) : n \in 0..Len(dir) }

\* Deno.writeTextFile(path, ...) resolves: the path names no directory and its
\* parent is a directory
ShotWriteSucceeds(dirs, path) ==
    /\ ~ path.trailing
    /\ path.segs # << >>
    /\ path.segs \notin dirs
    /\ dirname(path) \in dirs

\* part_000:154 the header put before the content of every file
ContextHeader == <<"#">>

\* The file objects a response may hold
ShotFileObjects ==
    { [ filename |-> <<"a">>, content |-> <<"x">> ],
      [ filename |-> <<"p","r","o","j","e","c","t","/","d","/","b">>, content |-> <<"y">> ],
      [ filename |-> <<"a","/","b">>, content |-> <<"z">> ],
      [ filename |-> ProjectPrefix, content |-> <<"x">> ] }

RECURSIVE ShotArraysUpTo(_)
ShotArraysUpTo(n) ==
    IF n = 0 THEN { << >> }
    ELSE LET shorter == ShotArraysUpTo(n - 1)
         IN  shorter \cup { Append(fs, f) : fs \in shorter, f \in ShotFileObjects }

\* The responses to the generation request: a text that is no JSON, JSON
\* without a files array, JSON with a files array
ShotResponses ==
    { [ kind |-> "text", files |-> << >> ], [ kind |-> "nofiles", files |-> << >> ] }
    \cup { [ kind |-> "files", files |-> fs ] : fs \in ShotArraysUpTo(MaxShotFiles) }

\* An entry of the log: what happened, to which file of the array (0: to
\* none), and the exit code of an exit
ShotEvent(ev, k) == [ ev |-> ev, k |-> k, code |-> 0 ]

ShotExit(k, code) == [ ev |-> "exit", k |-> k, code |-> code ]

InitShot ==
    /\ InitRun
    /\ promptResult = UserPrompt
    /\ IdleParse
    /\ IdleExtract
    /\ shotPc = "start"
    /\ shotFiles = << >>
    /\ shotIdx = 0
    /\ shotDisk = NoFiles
    /\ shotDirs = { << >>, shotBasePath, shotProjectDir }
    /\ shotLog = << >>
    /\ shotCalls = 0

\* part_000:152-158 and 187, 103-116: the for-of loop reaches entry k, whose
\* directory is being made, or, past the last entry, auditProject sends the
\* audit request.  log is shotLog so far.
ShotLoop(k, log) ==
    /\ shotIdx' = k
    /\ IF k <= Len(shotFiles)
       THEN /\ shotPc' = "mkdir"
            /\ shotLog' = log
            /\ shotCalls' = shotCalls
       ELSE /\ shotPc' = "audit_wait"
            /\ shotLog' = Append(log, ShotEvent("audit", 0))
            /\ shotCalls' = shotCalls + 1

\* part_000:124-127 main() up to the generation request
ShotStart ==
    /\ shotPc = "start"
    /\ shotPc' = "gen_wait"
    /\ shotLog' = Append(shotLog, ShotEvent("generate", 0))
    /\ shotCalls' = shotCalls + 1
    /\ UNCHANGED <<shotFiles, shotIdx, shotDisk, shotDirs, runVars, parseVars,
                   extractVars>>

\* part_000:127-149 the response arrives; JSON.parse fails or there is no files
\* array and the process exits with code 1, or the script is being read
ShotRespond(resp) ==
    /\ shotPc = "gen_wait"
    /\ IF resp.kind = "files"
       THEN /\ shotPc' = "read_script"
            /\ shotFiles' = resp.files
       ELSE /\ shotPc' = "exited"
            /\ shotFiles' = shotFiles
    /\ UNCHANGED <<shotIdx, shotDisk, shotDirs, shotLog, shotCalls, runVars,
                   parseVars, extractVars>>

\* part_000:64-80, 188-190 the generation request fails and main() catches it
ShotCallFails ==
    /\ shotPc = "gen_wait"
    /\ shotPc' = "caught"
    /\ UNCHANGED <<shotFiles, shotIdx, shotDisk, shotDirs, shotLog, shotCalls,
                   runVars, parseVars, extractVars>>

\* part_000:149-158 the script is read and the loop begins
ShotScriptRead ==
    /\ shotPc = "read_script"
    /\ ShotLoop(1, shotLog)
    /\ UNCHANGED <<shotFiles, shotDisk, shotDirs, runVars, parseVars, extractVars>>

\* part_000:158-160 the directory of the file is there and the write begins
ShotDirMade ==
    /\ shotPc = "mkdir"
    /\ LET fileDir == dirname(shotResolveFilePath(shotFiles[shotIdx].filename).filePath)
       IN  /\ MkdirSucceeds(shotDisk, fileDir)
           /\ shotDirs' = MkdirRecursive(shotDirs, fileDir)
    /\ shotPc' = "write"
    /\ UNCHANGED <<shotFiles, shotIdx, shotDisk, shotLog, shotCalls, runVars,
                   parseVars, extractVars>>

\* part_000:158, 188-190 Deno.mkdir rejects and main() catches it
ShotMkdirFails ==
    /\ shotPc = "mkdir"
    /\ ~ MkdirSucceeds(shotDisk,
                       dirname(shotResolveFilePath(shotFiles[shotIdx].filename).filePath))
    /\ shotPc' = "caught"
    /\ UNCHANGED <<shotFiles, shotIdx, shotDisk, shotDirs, shotLog, shotCalls,
                   runVars, parseVars, extractVars>>

\* part_000:160-171 the file is written, the child is spawned and awaited;
\* first a variant that goes on to the next file without awaiting the child
ShotFileWrittenNotAwaited ==
    /\ shotPc = "write"
    /\ LET file == shotFiles[shotIdx]
           filePath == shotResolveFilePath(file.filename).filePath
       IN  /\ ShotWriteSucceeds(shotDirs, filePath)
           /\ shotDisk' = Written(shotDisk, filePath, ContextHeader \o file.content)
    /\ ShotLoop(shotIdx + 1,
                shotLog \o << ShotEvent("write", shotIdx), ShotEvent("spawn", shotIdx) >>)
    /\ UNCHANGED <<shotFiles, shotDirs, runVars, parseVars, extractVars>>

ShotFileWritten ==
    /\ shotPc = "write"
    /\ LET file == shotFiles[shotIdx]
           filePath == shotResolveFilePath(file.filename).filePath
       IN  /\ ShotWriteSucceeds(shotDirs, filePath)
           /\ shotDisk' = Written(shotDisk, filePath, ContextHeader \o file.content)
    /\ shotLog' = shotLog \o << ShotEvent("write", shotIdx), ShotEvent("spawn", shotIdx) >>
    /\ shotPc' = "child_wait"
    /\ UNCHANGED <<shotFiles, shotIdx, shotDirs, shotCalls, runVars, parseVars,
                   extractVars>>

\* part_000:160, 188-190 Deno.writeTextFile rejects and main() catches it
ShotWriteFails ==
    /\ shotPc = "write"
    /\ ~ ShotWriteSucceeds(shotDirs, shotResolveFilePath(shotFiles[shotIdx].filename).filePath)
    /\ shotPc' = "caught"
    /\ UNCHANGED <<shotFiles, shotIdx, shotDisk, shotDirs, shotLog, shotCalls,
                   runVars, parseVars, extractVars>>

\* part_000:171-184 the child exits, its output is read and logged, and the
\* loop goes on
ShotChildExit(code) ==
    /\ shotPc = "child_wait"
    /\ ShotLoop(shotIdx + 1, Append(shotLog, ShotExit(shotIdx, code)))
    /\ UNCHANGED <<shotFiles, shotDisk, shotDirs, runVars, parseVars, extractVars>>

\* part_000:116-117, 187-191 the audit report arrives and is logged; main()
\* returns
ShotAuditRespond ==
    /\ shotPc = "audit_wait"
    /\ shotPc' = "done"
    /\ shotLog' = Append(shotLog, ShotEvent("report", 0))
    /\ UNCHANGED <<shotFiles, shotIdx, shotDisk, shotDirs, shotCalls, runVars,
                   parseVars, extractVars>>

\* part_000:116-120, 187-191 the audit request fails, auditProject catches
\* and logs it; main() returns
ShotAuditFails ==
    /\ shotPc = "audit_wait"
    /\ shotPc' = "done"
    /\ shotLog' = Append(shotLog, ShotEvent("audit error", 0))
    /\ UNCHANGED <<shotFiles, shotIdx, shotDisk, shotDirs, shotCalls, runVars,
                   parseVars, extractVars>>

NextShot ==
    \/ ShotStart
    \/ \E resp \in ShotResponses : ShotRespond(resp)
    \/ ShotCallFails
    \/ ShotScriptRead
    \/ ShotDirMade
    \/ ShotMkdirFails
    \/ ShotFileWritten
    \/ ShotWriteFails
    \/ \E code \in {0, 1} : ShotChildExit(code)
    \/ ShotAuditRespond
    \/ ShotAuditFails

SpecShot == InitShot /\ [][NextShot]_vars

-----------------------------------------------------------------------------
(* Properties of the run *)

\* The path the file of FileSpec k is written to
PathOf(k) == resolveFilePath(projectStructure[k].filename).filePath

\* A step in which the write of the current FileSpec's file completes
FileWriteStep == pc = "file_write" /\ nWrite'[idx] = nWrite[idx] + 1

\* A response text that holds "approved" in some letter case
HoldsApproved(r) == \E i \in 1..Len(r) : MatchAt(toLowerCase(r), Approved, i)

\* C1: when the approving response comes in audit round N, the content written
\* to disk is the candidate embedded in round N's audit prompt, which is the
\* extractor applied to the response before it (round N-1's, or the draft
\* when N = 1); it is the approving response's text only where the two
\* coincide.
C1_WrittenIsAuditedCandidate ==
    [][ FileWriteStep =>
          /\ lastPrompt.kind = "audit"
          /\ disk'[PathOf(idx).segs] = lastPrompt.parts[1]
          /\ lastPrompt.parts[1] = getBacktipsContent(prevResponse)
          /\ (nAudit[idx] = 1 => prevResponse = draftResponse)
          /\ HoldsApproved(lastResponse)
          /\ (nAudit[idx] >= 2 => disk'[PathOf(idx).segs] # lastResponse) ]_vars

\* C1 witness: a script approved in round 2 or later has been written, with
\* the candidate of that round and not the approving response
C1_Witness ==
    /\ pc = "exec_wait"
    /\ nAudit[idx] >= 2
    /\ nWrite[idx] = 1
    /\ disk[child.path] = getBacktipsContent(prevResponse)
    /\ disk[child.path] # lastResponse

\* C2: when the first audit response is "approved" in any letter case, exactly
\* one audit call is made for the FileSpec and the content written equals
\* getBacktipsContent of the draft response.
C2_FirstRoundApproval ==
    /\ [] ( (pc \in {"audit_wait", "file_write", "exec_wait"}
              /\ toLowerCase(firstAudit) = Approved) => nAudit[idx] = 1 )
    /\ [][ (FileWriteStep /\ toLowerCase(firstAudit) = Approved) =>
              /\ nAudit'[idx] = 1
              /\ disk'[PathOf(idx).segs] = getBacktipsContent(draftResponse) ]_vars

\* C2 witness: a script approved by a first response of "APPROVED" has been
\* written with the extracted draft after one audit call
C2_Witness ==
    /\ pc = "exec_wait"
    /\ firstAudit = <<"A","P","P","R","O","V","E","D">>
    /\ nAudit[idx] = 1
    /\ disk[child.path] = getBacktipsContent(draftResponse)

\* C3: an audit response is an approval exactly when its lower-cased text
\* contains "approved"; then the loop ends with the candidate unchanged and no
\* further audit call, and otherwise another audit round is started on the
\* same FileSpec.
C3_ApprovalIffContainsApproved ==
    [][ (pc = "audit_wait" /\ pc' # "failed") =>
          IF HoldsApproved(lastResponse')
          THEN /\ pc' = "file_write"
               /\ fileContent' = fileContent
               /\ nAudit' = nAudit
               /\ idx' = idx
          ELSE /\ pc' = "audit_wait"
               /\ nAudit' = [nAudit EXCEPT ![idx] = @ + 1]
               /\ lastPrompt'.kind = "audit"
               /\ idx' = idx ]_vars

\* C3 witness: a response that holds "Approved" next to other text ended the
\* loop in a later round, the candidate being the one that was audited
C3_Witness ==
    /\ pc = "file_write"
    /\ nAudit[idx] >= 2
    /\ lastResponse = <<"N","o","t"," ","A","p","p","r","o","v","e","d",".",NL,"z">>
    /\ fileContent = lastPrompt.parts[1]
    /\ fileContent # lastResponse

\* C4: the audit loop ends only by an approving response.  While the loop of
\* a FileSpec runs, every audit response so far was non-approving, an audit
\* call is in flight, its file is not written and no later FileSpec is
\* started; once the loop is left the last response was an approving one.
C4_LoopEndsOnlyOnApproval ==
    /\ pc = "audit_wait" =>
          /\ inflight = 1
          /\ lastPrompt.kind = "audit"
          /\ nWrite[idx] = 0
          /\ approvedContent[idx] = << >>
          /\ nAudit[idx] >= 2 => ~ HoldsApproved(lastResponse)
          /\ \A k \in (idx + 1)..Len(projectStructure) :
                nDraft[k] = 0 /\ nAudit[k] = 0 /\ nWrite[k] = 0
    /\ pc \in {"file_write", "exec_wait"} =>
          /\ HoldsApproved(lastResponse)
          /\ nAudit[idx] >= 1
    /\ \A k \in 1..Len(projectStructure) :
          (nWrite[k] > 0 \/ k < idx) => approvedContent[k] # << >>

\* C4 witness: the second FileSpec is in its third audit round
C4_Witness ==
    /\ pc = "audit_wait"
    /\ idx = 2
    /\ nAudit[idx] >= 3
    /\ ~ HoldsApproved(lastResponse)

\* The child of FileSpec k ran to its exit
Exited(k) == \E i \in 1..Len(execLog) : execLog[i][1] = k

\* C5: at most one completion request is in flight, and FileSpecs are
\* processed in listing order: a completion call for FileSpec k+1 is made only
\* after FileSpec k's file is written and, for a script, its child has exited.
C5_OneAtATime ==
    /\ inflight \in {0, 1}
    /\ inflight = 1 => child = NoChild
    /\ \A k \in 1..Len(projectStructure) :
          (nDraft[k] > 0 /\ k > 1) =>
             /\ nDraft[k - 1] = 1
             /\ nWrite[k - 1] = 1
             /\ child.index # k - 1
             /\ ( ( endsWith(projectStructure[k - 1].filename, DotPy)
                    \/ endsWith(projectStructure[k - 1].filename, DotJs) )
                  => Exited(k - 1) )
    /\ \A k \in 1..Len(projectStructure) : nDraft[k] > 0 => k <= idx

\* C5 witness: the draft call of the second FileSpec is in flight after the
\* first, a script, was written and ran to exit
C5_Witness ==
    /\ pc = "draft_wait"
    /\ idx = 2
    /\ inflight = 1
    /\ nWrite[1] = 1
    /\ Exited(1)

\* A per-file completion call was made or a FileSpec's file was written
FilePhaseBegun ==
    \/ lastPrompt.kind \in {"draft", "audit"}
    \/ \E k \in 1..Len(nDraft) : nDraft[k] > 0 \/ nAudit[k] > 0 \/ nWrite[k] > 0

\* C6: no per-file completion call is made and no FileSpec's file is written
\* before global_context.txt holds the generated context and
\* project_structure.txt holds the generated listing, the former persisted
\* before the latter.
C6_ArtifactsBeforeFiles ==
    /\ FilePhaseBegun =>
          /\ GlobalContextFile.segs \in DOMAIN disk
          /\ ProjectStructureFile.segs \in DOMAIN disk
          /\ nCalls >= 2
    /\ ProjectStructureFile.segs \in DOMAIN disk =>
          GlobalContextFile.segs \in DOMAIN disk
    /\ (GlobalContextFile.segs \in DOMAIN disk /\ ~ FilePhaseBegun) =>
          disk[GlobalContextFile.segs] = globalContext
    /\ (ProjectStructureFile.segs \in DOMAIN disk /\ ~ FilePhaseBegun) =>
          disk[ProjectStructureFile.segs] = structureText

\* C6 witness: the first draft call is in flight and both artifacts are on disk
C6_Witness ==
    /\ pc = "draft_wait"
    /\ idx = 1
    /\ nDraft[1] = 1
    /\ disk[GlobalContextFile.segs] = globalContext
    /\ disk[ProjectStructureFile.segs] = structureText

RECURSIVE SumSeq(_)
SumSeq(q) == IF q = << >> THEN 0 ELSE Head(q) + SumSeq(Tail(q))

\* The run is over: main() returned, awaits only the animation, or rejected
RunOver == pc \in {"anim_wait", "done", "failed"}

\* C7: a FileSpec processed to completion had one draft call and one call per
\* audit round (at least two calls), and its file was written exactly once,
\* after its approval; no file is written twice or before its approval; the
\* run issues no other completion call than the context, the structure, the
\* drafts and the audits; and a run over n FileSpecs that all got approved
\* performed exactly n file writes.
C7_CallsAndWritesPerFile ==
    /\ \A k \in 1..Len(projectStructure) :
          /\ k < idx =>
                /\ nDraft[k] = 1
                /\ nAudit[k] >= 1
                /\ nWrite[k] = 1
          /\ nWrite[k] <= 1
          /\ nWrite[k] = 1 => approvedContent[k] # << >>
    /\ nDraft # << >> => nCalls = 2 + SumSeq(nDraft) + SumSeq(nAudit)
    /\ ( /\ RunOver
         /\ nCalls >= 2
         /\ \A k \in 1..Len(projectStructure) : approvedContent[k] # << >> )
       => SumSeq(nWrite) = Len(projectStructure)

\* C8: with two FileSpecs of the same filename, both are drafted, audited and
\* written, and once both are done (and no later FileSpec was written to the
\* same path) the file holds the approved content of the later one.
C8_LaterFileSpecWins ==
    \A i, j \in 1..Len(projectStructure) :
       ( /\ i < j
         /\ j < idx
         /\ projectStructure[i].filename = projectStructure[j].filename
         /\ \A k \in (j + 1)..Len(projectStructure) :
               nWrite[k] > 0 => PathOf(k).segs # PathOf(j).segs )
       => /\ nDraft[i] = 1 /\ nDraft[j] = 1
          /\ nAudit[i] >= 1 /\ nAudit[j] >= 1
          /\ nWrite[i] = 1 /\ nWrite[j] = 1
          /\ disk[PathOf(j).segs] = approvedContent[j][1]

\* C8 witness: two FileSpecs named "a" are done with different approved
\* contents, and the file holds the second one's
C8_Witness ==
    /\ Len(projectStructure) = 2
    /\ idx = 3
    /\ projectStructure[1].filename = projectStructure[2].filename
    /\ approvedContent[1] # approvedContent[2]
    /\ disk[PathOf(2).segs] = approvedContent[2][1]
    /\ disk[PathOf(1).segs] # approvedContent[1][1]

\* The text t is one of the texts interpolated into the prompt p
Embeds(p, t) == \E i \in 1..Len(p.parts) : p.parts[i] = t

\* C14: every prompt sent after the context prompt (the structure prompt,
\* every draft prompt and every audit prompt) embeds the global context as
\* the Context Generator returned it.
C14_ContextInEveryLaterPrompt ==
    lastPrompt.kind \in {"structure", "draft", "audit"} =>
        Embeds(lastPrompt, globalContext)

\* C15: once the listing is parsed and the FileSpecs are being processed, no
\* step (draft, audit round, revision, write, execution) changes the global
\* context or the file listing: the context is still the text persisted as
\* global_context.txt and the listing is still the parse of the structure
\* completion.
C15_FileProcessingLeavesInputs ==
    /\ [](idx >= 1 =>
            /\ disk[GlobalContextFile.segs] = globalContext
            /\ projectStructure = parseStructureText(structureText))
    /\ [][idx >= 1 =>
            /\ globalContext' = globalContext
            /\ projectStructure' = projectStructure]_vars

\* C15 witness: the second FileSpec is in a later audit round after the first
\* took a revision too, and context and listing are as they were produced
C15_Witness ==
    /\ pc = "audit_wait"
    /\ idx = 2
    /\ nAudit[1] >= 2
    /\ nAudit[2] >= 2
    /\ nWrite[1] = 1
    /\ globalContext \in GlobalContexts
    /\ disk[GlobalContextFile.segs] = globalContext
    /\ Len(projectStructure) = 2
    /\ projectStructure = parseStructureText(structureText)

\* C16: a failed completion call, at whichever stage, is not sent again: the
\* step in which it fails makes no call and writes nothing, main() has
\* rejected with no request left in flight, and from then on no completion
\* call is made and the files on disk stay as they are.
C16_CompletionFailureEndsRun ==
    /\ [](thrown = "completion" => (pc = "failed" /\ inflight = 0))
    /\ [][(thrown = "none" /\ thrown' = "completion") =>
            /\ pc \in {"ctx_wait", "struct_wait", "draft_wait", "audit_wait"}
            /\ nCalls' = nCalls
            /\ lastPrompt' = lastPrompt
            /\ disk' = disk]_vars
    /\ [][thrown = "completion" =>
            /\ nCalls' = nCalls
            /\ lastPrompt' = lastPrompt
            /\ disk' = disk
            /\ nWrite' = nWrite
            /\ execLog' = execLog
            /\ pc' = pc]_vars

\* C16 witness: an audit call of the second FileSpec failed; the file of the
\* first is on disk with its approved content and the second was not written
C16_Witness ==
    /\ thrown = "completion"
    /\ pc = "failed"
    /\ idx = 2
    /\ nAudit[2] >= 1
    /\ nWrite = <<1, 0>>
    /\ projectStructure[1].filename # projectStructure[2].filename
    /\ disk[PathOf(1).segs] = approvedContent[1][1]
    /\ PathOf(2).segs \notin DOMAIN disk

\* The child of the current FileSpec exits with a nonzero code in this step
NonzeroExitStep ==
    /\ pc = "exec_wait"
    /\ Len(execLog') = Len(execLog) + 1
    /\ execLog'[Len(execLog')][1] = idx
    /\ execLog'[Len(execLog')][3] # 0

\* C17: a nonzero exit code of a spawned script is logged and nothing else:
\* the file keeps its approved content, the FileSpec gets no further draft or
\* audit call and is not written again, nothing is thrown, and the run goes
\* on to the next FileSpec or, after the last one, to its normal end.
C17_NonzeroExitOnlyLogged ==
    /\ [][NonzeroExitStep =>
            /\ disk' = disk
            /\ disk[PathOf(idx).segs] = approvedContent[idx][1]
            /\ <<nDraft'[idx], nAudit', nWrite', approvedContent'>> =
                  <<nDraft[idx], nAudit, nWrite, approvedContent>>
            /\ thrown' = "none"
            /\ idx' = idx + 1
            /\ pc' = IF idx < Len(projectStructure)
                     THEN "draft_wait" ELSE "anim_wait"]_vars
    /\ [](\A i \in 1..Len(execLog) :
            (execLog[i][3] # 0 /\ execLog[i][1] < idx) =>
                /\ nDraft[execLog[i][1]] = 1
                /\ nWrite[execLog[i][1]] = 1)

\* C17 witness: the first script exited with code 1, its file holds the
\* approved content, the second FileSpec was processed after it and main()
\* returned
C17_Witness ==
    /\ pc = "done"
    /\ thrown = "none"
    /\ Len(execLog) = 2
    /\ execLog[1][1] = 1
    /\ execLog[1][3] = 1
    /\ disk[PathOf(1).segs] = approvedContent[1][1]
    /\ nWrite = <<1, 1>>

\* The filename ends in ".py" or ".js"
EndsInPyOrJs(filename) ==
    LET n == Len(filename)
    IN  /\ n >= 3
        /\ SubSeq(filename, n - 2, n) \in { <<".", "p", "y">>, <<".", "j", "s">> }

\* C18: a FileSpec that was processed to its end had its file executed if and
\* only if its filename ends in ".py" or ".js"; a child process runs only the
\* file of the current FileSpec, after that file was written with its approved
\* content; and while a FileSpec is drafted, audited, revised or written no
\* child runs and its file has not been executed.
C18_ExecutedIffScriptAfterWrite ==
    /\ \A k \in 1..Len(projectStructure) :
          k < idx => (Exited(k) <=> EndsInPyOrJs(projectStructure[k].filename))
    /\ \A i \in 1..Len(execLog) :
          /\ EndsInPyOrJs(projectStructure[execLog[i][1]].filename)
          /\ nWrite[execLog[i][1]] = 1
    /\ child # NoChild =>
          /\ pc = "exec_wait"
          /\ child.index = idx
          /\ EndsInPyOrJs(projectStructure[idx].filename)
          /\ nWrite[idx] = 1
          /\ approvedContent[idx] # << >>
          /\ child.path = PathOf(idx).segs
          /\ disk[child.path] = approvedContent[idx][1]
    /\ pc \in {"draft_wait", "audit_wait", "file_write"} =>
          /\ child = NoChild
          /\ ~ Exited(idx)
    /\ pc = "exec_wait" => child # NoChild

\* C18 witness: u.js was written with its approved content and is running,
\* after m.py was written and run
C18_Witness ==
    /\ pc = "exec_wait"
    /\ idx = 2
    /\ projectStructure[2].filename = <<"u", ".", "j", "s">>
    /\ child.index = 2
    /\ child.cmd = "deno"
    /\ nWrite = <<1, 1>>
    /\ disk[child.path] = approvedContent[2][1]
    /\ Exited(1)
    /\ ~ Exited(2)

\* The filename names a directory under the project directory that is not there
NamesMissingDirectory(k) ==
    /\ includes(projectStructure[k].filename, <<SEP>>)
    /\ ~ WriteSucceeds(PathOf(k))

\* C19: a FileSpec whose filename names subdirectories that do not exist yet
\* has, once approved and past its write, its approved content in the file
\* <project directory>/<filename>, and the run has not stopped on the write.
C19_SubdirectoriesCreated ==
    \A k \in 1..Len(projectStructure) :
       ( /\ NamesMissingDirectory(k)
         /\ approvedContent[k] # << >>
         /\ ~ (k = idx /\ pc = "file_write") )
       => /\ nWrite[k] = 1
          /\ PathOf(k).segs \in DOMAIN disk
          /\ disk[PathOf(k).segs] = approvedContent[k][1]
          /\ thrown # "write"

\* C20: when the prompt call for the generation prompt yields no text, the
\* program ends with exit code 1 and no completion call is ever made.
C20_EmptyPromptIsFatal ==
    promptResult \in {JsNull, EmptyStr} =>
        /\ pc \in {"start", "exited"}
        /\ nCalls = 0
        /\ lastPrompt = NoPrompt

\* The listing was parsed and has no FileSpec
EmptyListingParsed == idx >= 1 /\ projectStructure = << >>

\* C21: a run whose listing parses to no FileSpec has made the context call
\* and the structure call and no other, has written global_context.txt and
\* project_structure.txt and no other file, has processed and executed
\* nothing and thrown nothing, and it goes on to return from main().
C21_EmptyListingIsNoOpRun ==
    /\ [](EmptyListingParsed =>
            /\ nCalls = 2
            /\ inflight = 0
            /\ lastPrompt.kind = "structure"
            /\ DOMAIN disk = {GlobalContextFile.segs, ProjectStructureFile.segs}
            /\ execLog = << >>
            /\ child = NoChild
            /\ thrown = "none"
            /\ pc \in {"anim_wait", "done"})
    /\ (EmptyListingParsed ~> pc = "done")

\* C21 witness: main() has returned from a run whose listing text had two
\* lines, none of them accepted
C21_Witness ==
    /\ EmptyListingParsed
    /\ structureText = <<"o", "k", NL, ":", "x">>
    /\ pc = "done"
    /\ nCalls = 2
    /\ anim = "done"

\* C23: a run in which no completion call fails finishes: main() returns with
\* the animation over and loading cleared.  Until then loading is cleared only
\* past the last FileSpec, also for the empty listing, and a wake-up of the
\* animation changes nothing of the audit loop: no call, no prompt, no step of
\* main().
C23_RunFinishes ==
    /\ []((idx >= 1 /\ ~ loading) => idx > Len(projectStructure))
    /\ []((idx >= 1 /\ idx <= Len(projectStructure) /\ thrown = "none") =>
            (loading /\ anim = "sleeping"))
    /\ [][(anim = "sleeping" /\ anim' = "done") =>
            /\ ~ loading
            /\ UNCHANGED <<pc, inflight, nCalls, lastPrompt, idx, disk>>]_vars
    /\ <>(\/ thrown = "completion"
          \/ pc = "exited"
          \/ (pc = "done" /\ anim = "done" /\ ~ loading))

\* The path lies inside the project directory: below it, not the directory itself
InsideProjectDir(segs) ==
    /\ Len(segs) > Len(projectDir)
    /\ SubSeq(segs, 1, Len(projectDir)) = projectDir

\* C24: whatever filename the listing gave, the path a FileSpec's file is
\* written to, and the path a child is run on, lies inside the project
\* directory.
C24_WritesStayInProjectDir ==
    /\ \A k \in 1..Len(projectStructure) :
          nWrite[k] >= 1 => InsideProjectDir(PathOf(k).segs)
    /\ \A q \in DOMAIN disk : InsideProjectDir(q)
    /\ child # NoChild => InsideProjectDir(child.path)
    /\ \A i \in 1..Len(execLog) : InsideProjectDir(execLog[i][2])

-----------------------------------------------------------------------------
(* Properties of parseStructureText *)

\* The lines of a text: the stretches between its line feeds
LinesOf(t) == split(t, NL)

HasColon(line) == \E i \in 1..Len(line) : line[i] = ":"

FirstColon(line) ==
    CHOOSE i \in 1..Len(line) :
        line[i] = ":" /\ \A k \in 1..(i - 1) : line[k] # ":"

BeforeColon(line) == SubSeq(line, 1, FirstColon(line) - 1)
AfterColon(line) == SubSeq(line, FirstColon(line) + 1, Len(line))

\* A line with a colon and text on both sides of its first colon
WellFormed(line) ==
    /\ HasColon(line)
    /\ trim(BeforeColon(line)) # EmptyStr
    /\ trim(AfterColon(line)) # EmptyStr

EntryOf(line) ==
    [ filename |-> trim(BeforeColon(line)), description |-> trim(AfterColon(line)) ]

\* C9: every line with a colon and non-blank text on both sides of its first
\* colon yields the entry of the trimmed text before the first colon and the
\* trimmed text after it, later colons kept.
C9_WellFormedLineYieldsEntry ==
    ppc = "returned" =>
       \A i \in 1..Len(LinesOf(text)) :
          WellFormed(LinesOf(text)[i]) =>
             \E k \in 1..Len(parsed) : parsed[k] = EntryOf(LinesOf(text)[i])

\* C9 witness: "a:b:c" was parsed to filename "a", description "b:c"
C9_Witness ==
    /\ ppc = "returned"
    /\ text = <<"a", ":", "b", ":", "c">>
    /\ parsed = << [filename |-> <<"a">>, description |-> <<"b", ":", "c">>] >>

\* C10: a line without a colon, or with nothing but blanks on one side of its
\* first colon, yields no entry and no partial record: the result has one
\* entry per well-formed line, each with a non-empty filename and description
\* taken from such a line; the empty text yields the empty sequence.
C10_MalformedLineYieldsNothing ==
    ppc = "returned" =>
       /\ Len(parsed) =
             Cardinality({ i \in 1..Len(LinesOf(text)) : WellFormed(LinesOf(text)[i]) })
       /\ \A k \in 1..Len(parsed) :
             /\ parsed[k].filename # EmptyStr
             /\ parsed[k].description # EmptyStr
             /\ \E i \in 1..Len(LinesOf(text)) :
                   /\ WellFormed(LinesOf(text)[i])
                   /\ parsed[k] = EntryOf(LinesOf(text)[i])
       /\ text = EmptyStr => parsed = << >>

\* C10 witness: the lines "a:" and ":b" were parsed to nothing
C10_Witness ==
    /\ ppc = "returned"
    /\ text = <<"a", ":", NL, ":", "b">>
    /\ parsed = << >>

\* The positions of the well-formed lines of a text, and the k-th of them
AcceptedLines(t) == { i \in 1..Len(LinesOf(t)) : WellFormed(LinesOf(t)[i]) }

KthAccepted(t, k) ==
    CHOOSE i \in AcceptedLines(t) :
        Cardinality({ j \in AcceptedLines(t) : j < i }) = k - 1

\* C11: the result lists the accepted lines in the order of the text, one
\* entry per accepted line: it is as long as there are accepted lines, its
\* k-th entry is the entry of the k-th accepted line, and lines of equal
\* filename all keep their entries.
C11_EntriesInInputOrder ==
    ppc = "returned" =>
       /\ Len(parsed) = Cardinality(AcceptedLines(text))
       /\ \A k \in 1..Len(parsed) :
             parsed[k] = EntryOf(LinesOf(text)[KthAccepted(text, k)])

\* C11 witness: two accepted lines of the same filename and different
\* descriptions, and both entries are there in the order of the lines
C11_Witness ==
    /\ ppc = "returned"
    /\ text = <<"a", ":", "c", NL, "a", ":", "b">>
    /\ parsed = << [filename |-> <<"a">>, description |-> <<"c">>],
                   [filename |-> <<"a">>, description |-> <<"b">>] >>

-----------------------------------------------------------------------------
(* Properties of getBacktipsContent *)

\* A fenced block: three backticks at the start of a line, and three
\* backticks at the start of a later line
BlockAt(t, i, j) ==
    /\ LineStart(t, i)
    /\ MatchAt(t, Fence, i)
    /\ j >= i + 3
    /\ LineStart(t, j)
    /\ MatchAt(t, Fence, j)

HasFencedBlock(t) == \E i, j \in 1..Len(t) : BlockAt(t, i, j)

\* The text between the markers of the first fenced block
EnclosedBody(t) ==
    LET i == CHOOSE a \in 1..Len(t) :
                /\ \E j \in 1..Len(t) : BlockAt(t, a, j)
                /\ \A b \in 1..(a - 1) : ~ \E j \in 1..Len(t) : BlockAt(t, b, j)
        j == CHOOSE c \in 1..Len(t) :
                /\ BlockAt(t, i, c)
                /\ \A e \in 1..(c - 1) : ~ BlockAt(t, i, e)
    IN  SubSeq(t, i + 3, j - 1)

\* C12: for a text that contains a fenced block, getBacktipsContent returns
\* the enclosed body alone, the fence markers stripped.
C12_FencedBodyReturned ==
    (nApplied = 1 /\ HasFencedBlock(extractArg)) =>
        extracted = EnclosedBody(extractArg)

\* C13: for a text without a fenced block getBacktipsContent returns the text
\* as it is, and so does every further application to the result.
C13_UnfencedTextUnchanged ==
    (nApplied >= 1 /\ ~ HasFencedBlock(extractArg)) => extracted = extractArg

\* C13 witness: a text with backticks inside a line, and no fenced block, came
\* back unchanged from the second application
C13_Witness ==
    /\ nApplied = 2
    /\ extractArg = <<"c", BT, BT, BT, "c", BT, BT, BT>>
    /\ ~ HasFencedBlock(extractArg)
    /\ extracted = extractArg

-----------------------------------------------------------------------------
(* Properties of the single-shot generator *)

\* The positions in the log of an event on file k
ShotAt(ev, k) == { i \in 1..Len(shotLog) : shotLog[i].ev = ev /\ shotLog[i].k = k }

\* The event on file k is in the log once, and before position p
ShotOnceBefore(ev, k, p) ==
    /\ Cardinality(ShotAt(ev, k)) = 1
    /\ \A i \in ShotAt(ev, k) : i < p

\* C22: the files are written in the order of the files array; when a file
\* is written, every file before it in the array was written, run and waited
\* for, in this order; a child is spawned right after the write of its file
\* and nothing happens between its spawn and its exit; and the audit request
\* is sent once at most, after every file of the array was written and run
\* and its child has exited.
C22_WriteRunWaitThenAudit ==
    /\ \A p \in 1..Len(shotLog) :
          shotLog[p].ev = "write" =>
             /\ \A j \in 1..(shotLog[p].k - 1) :
                   /\ ShotOnceBefore("write", j, p)
                   /\ ShotOnceBefore("spawn", j, p)
                   /\ ShotOnceBefore("exit", j, p)
             /\ \A q \in (p + 1)..Len(shotLog) :
                   shotLog[q].ev = "write" => shotLog[q].k > shotLog[p].k
             /\ p < Len(shotLog) => shotLog[p + 1] = ShotEvent("spawn", shotLog[p].k)
    /\ \A p \in 1..Len(shotLog) :
          shotLog[p].ev = "spawn" =>
             /\ p > 1
             /\ shotLog[p - 1] = ShotEvent("write", shotLog[p].k)
             /\ p < Len(shotLog) =>
                   (shotLog[p + 1].ev = "exit" /\ shotLog[p + 1].k = shotLog[p].k)
    /\ Cardinality(ShotAt("audit", 0)) <= 1
    /\ \A p \in ShotAt("audit", 0) :
          \A j \in 1..Len(shotFiles) :
             /\ ShotOnceBefore("write", j, p)
             /\ ShotOnceBefore("spawn", j, p)
             /\ ShotOnceBefore("exit", j, p)

\* C22 witness: two files were written, run and waited for one after the
\* other, the first child with a nonzero exit code, and then the audit
\* request was sent
C22_Witness ==
    /\ shotPc = "audit_wait"
    /\ Len(shotFiles) = 2
    /\ shotLog = << ShotEvent("generate", 0),
                    ShotEvent("write", 1), ShotEvent("spawn", 1), ShotExit(1, 1),
                    ShotEvent("write", 2), ShotEvent("spawn", 2), ShotExit(2, 0),
                    ShotEvent("audit", 0) >>
    /\ shotCalls = 2

=============================================================================
